---------------------------- MODULE Spec2Model ----------------------------
(***************************************************************************)
(* Arithmetic in GF(2^8) modulo x^8+x^4+x^3+x+1 as implemented by          *)
(* src/src/lib.rs (crate isochronous_finite_fields): the wrapper GF(u8),   *)
(* extend_bit, Add/Sub/Mul and their assigning forms, and                  *)
(* multiplicative_inverse.                                                 *)
(*                                                                         *)
(* One run of the machine is one call of one public operation on operands  *)
(* drawn from all of u8.  The loops of mul and multiplicative_inverse are  *)
(* executed one iteration per step; steps, mults and hits are history      *)
(* counters (instrumentation) and are read by no action.                   *)
(***************************************************************************)
EXTENDS Integers, Naturals, FiniteSets, Sequences, TLC

VARIABLES
    op,         \* the operation called
    self,       \* left operand, passed by value (GF is Copy)
    rhs,        \* right operand
    lhs,        \* the caller's variable behind &mut self in the assigning forms
    pc,         \* position: "call", "mul_loop", "inv_loop", "inv_mul", "done", "panic"
    a, b, p,    \* locals of mul
    i,          \* counter of mul's `for _ in 0..8`
    inv_p,      \* local p of multiplicative_inverse
    x,          \* loop variable of multiplicative_inverse
    next_x,     \* start field of the iterator 0u8..=255u8
    exhausted,  \* exhausted flag of the iterator 0u8..=255u8
    res,        \* value returned by the operation
    steps,      \* history: executions of the body of mul's loop
    mults,      \* history: completed calls of mul
    hits        \* history: iterations of the inverse loop whose XOR term was nonzero

vars == <<op, self, rhs, lhs, pc, a, b, p, i, inv_p, x, next_x, exhausted,
          res, steps, mults, hits>>

---------------------------------------------------------------------------
(* u8 and i8 arithmetic *)

U8Mod == 256

Byte == 0 .. (U8Mod - 1)

\* v as i8: reinterpret the byte as two's complement
AsI8(v) == IF v >= U8Mod \div 2 THEN v - U8Mod ELSE v

\* s as u8: reinterpret the signed byte as unsigned
AsU8(s) == s % U8Mod

\* u8 << k, k < 8: bits shifted out are discarded
ShlU8(v, k) == (v * (2 ^ k)) % U8Mod

\* u8 >> k, k < 8: logical shift
ShrU8(v, k) == v \div (2 ^ k)

\* i8 << k, k < 8: the bit pattern is shifted, the result is read back as i8
ShlI8(s, k) == AsI8(ShlU8(AsU8(s), k))

\* variant: the right shift done on the unsigned pattern, zeros shifted in
ShrLogicalI8(s, k) == ShrU8(AsU8(s), k % 8)

\* i8::wrapping_shr(k): arithmetic shift by k mod 8, the sign bit is copied in
WrappingShrI8(s, k) == s \div (2 ^ (k % 8))

RECURSIVE XorRec(_, _)
\* ^ on naturals, from the low bit up
XorRec(m, n) ==
    IF m = 0 THEN n
    ELSE IF n = 0 THEN m
    ELSE (((m % 2) + (n % 2)) % 2) + 2 * XorRec(m \div 2, n \div 2)

RECURSIVE AndRec(_, _)
\* & on naturals, from the low bit up
AndRec(m, n) ==
    IF m = 0 \/ n = 0 THEN 0
    ELSE ((m % 2) * (n % 2)) + 2 * AndRec(m \div 2, n \div 2)

RECURSIVE OrRec(_, _)
\* | on naturals, from the low bit up
OrRec(m, n) ==
    IF m = 0 THEN n
    ELSE IF n = 0 THEN m
    ELSE (IF (m % 2) + (n % 2) > 0 THEN 1 ELSE 0) + 2 * OrRec(m \div 2, n \div 2)

\* the three operators on u8, computed once for every pair of bytes
XorTab == [m \in Byte |-> [n \in Byte |-> XorRec(m, n)]]

AndTab == [m \in Byte |-> [n \in Byte |-> AndRec(m, n)]]

OrTab == [m \in Byte |-> [n \in Byte |-> OrRec(m, n)]]

\* u8 ^ u8
BitXor(m, n) == XorTab[m][n]

\* u8 & u8
BitAnd(m, n) == AndTab[m][n]

\* u8 | u8
BitOr(m, n) == OrTab[m][n]

\* !u8
BitNot(v) == (U8Mod - 1) - v

---------------------------------------------------------------------------
(* extend_bit *)

ExtendShift == 7

\* (((input) as i8) << 7).wrapping_shr(7) as u8
extend_bit(input) ==
    AsU8(WrappingShrI8(ShlI8(AsI8(input), ExtendShift), ExtendShift))

---------------------------------------------------------------------------
(* Add, Sub *)

\* Self(self.0 ^ rhs.0)
add(s, r) == BitXor(s, r)

\* variant: the integer difference, wrapped to u8
sub_wrapping(s, r) == (s - r) % U8Mod

\* self.add(rhs)
sub(s, r) == add(s, r)

---------------------------------------------------------------------------
(* Mul *)

\* variant: 0x1d, the low byte of another common degree-8 polynomial
PolyOther == 27 + 2

\* 0x1b: the irreducible polynomial with the high term eliminated
Poly == 27

\* variant: one iteration short
MulItersShort == 8 - 1

\* the bound of `for _ in 0..8`
MulIters == 8

\* variant: a folded into p with |= instead of ^=
MulIterOr(s) ==
    LET p1    == BitOr(s.p, BitAnd(extend_bit(BitAnd(s.b, 1)), s.a))
        b1    == ShrU8(s.b, 1)
        carry == BitAnd(ShrU8(s.a, 7), 1)
        a1    == ShlU8(s.a, 1)
        a2    == BitXor(a1, BitAnd(extend_bit(BitAnd(carry, 1)), 27))
    IN  [a |-> a2, b |-> b1, p |-> p1]

\* variant: carry read from bit 6 instead of bit 7
MulIterCarry6(s) ==
    LET p1    == BitXor(s.p, BitAnd(extend_bit(BitAnd(s.b, 1)), s.a))
        b1    == ShrU8(s.b, 1)
        carry == BitAnd(ShrU8(s.a, 6), 1)
        a1    == ShlU8(s.a, 1)
        a2    == BitXor(a1, BitAnd(extend_bit(BitAnd(carry, 1)), 27))
    IN  [a |-> a2, b |-> b1, p |-> p1]

\* One execution of the body of mul's loop on the locals <<a, b, p>>.
MulIter(s) ==
    LET p1    == BitXor(s.p, BitAnd(extend_bit(BitAnd(s.b, 1)), s.a))
        b1    == ShrU8(s.b, 1)
        carry == BitAnd(ShrU8(s.a, 7), 1)
        a1    == ShlU8(s.a, 1)
        a2    == BitXor(a1, BitAnd(extend_bit(BitAnd(carry, 1)), Poly))
    IN  [a |-> a2, b |-> b1, p |-> p1]

RECURSIVE MulFrom(_, _)
\* the loop of mul from counter value k on
MulFrom(s, k) == IF k < MulIters THEN MulFrom(MulIter(s), k + 1) ELSE s

\* GF(s) * GF(r): the whole call
mul(s, r) == MulFrom([a |-> s, b |-> r, p |-> 0], 0).p

---------------------------------------------------------------------------
(* the iterator 0u8..=255u8 of multiplicative_inverse *)

RangeEnd == 255

\* variant: a counter incremented after every value, with no exhausted flag
RangeNextNaive(start, exh) ==
    IF exh \/ start > RangeEnd
    THEN [some |-> FALSE, value |-> 0, start |-> start, exhausted |-> exh,
          overflow |-> FALSE]
    ELSE [some |-> TRUE, value |-> start, start |-> start + 1, exhausted |-> FALSE,
          overflow |-> start + 1 >= U8Mod]

\* RangeInclusive::next: whether a value is yielded, and the iterator after it.
\* overflow: the increment of start left u8.
RangeNext(start, exh) ==
    IF exh \/ start > RangeEnd
    THEN [some |-> FALSE, value |-> 0, start |-> start, exhausted |-> exh,
          overflow |-> FALSE]
    ELSE IF start < RangeEnd
    THEN [some |-> TRUE, value |-> start, start |-> start + 1, exhausted |-> FALSE,
          overflow |-> start + 1 >= U8Mod]
    ELSE [some |-> TRUE, value |-> start, start |-> start, exhausted |-> TRUE,
          overflow |-> FALSE]

---------------------------------------------------------------------------
(* multiplicative_inverse: the part of the loop body after the product *)

\* variant: the fold stops at y >> 6
OrFoldShort(y) ==
    BitOr(BitOr(BitOr(BitOr(BitOr(BitOr(y, ShrU8(y, 1)), ShrU8(y, 2)),
          ShrU8(y, 3)), ShrU8(y, 4)), ShrU8(y, 5)), ShrU8(y, 6))

\* y | y >> 1 | y >> 2 | y >> 3 | y >> 4 | y >> 5 | y >> 6 | y >> 7
OrFold(y) ==
    BitOr(BitOr(BitOr(BitOr(BitOr(BitOr(BitOr(y, ShrU8(y, 1)), ShrU8(y, 2)),
          ShrU8(y, 3)), ShrU8(y, 4)), ShrU8(y, 5)), ShrU8(y, 6)), ShrU8(y, 7))

\* variant: the mask is not negated
InvTermNoNot(prod, cand) ==
    LET y  == BitXor(prod, 1)
        or == BitOr(BitOr(BitOr(BitOr(BitOr(BitOr(BitOr(y, ShrU8(y, 1)), ShrU8(y, 2)),
              ShrU8(y, 3)), ShrU8(y, 4)), ShrU8(y, 5)), ShrU8(y, 6)), ShrU8(y, 7))
    IN  BitAnd(extend_bit(or), cand)

\* !extend_bit(or) & x, for the product prod = (self * GF(x)).0
InvTerm(prod, cand) ==
    LET y  == BitXor(prod, 1)
        or == OrFold(y)
    IN  BitAnd(BitNot(extend_bit(or)), cand)

---------------------------------------------------------------------------
(* the machine *)

BinaryOps == {"mul", "mul_assign", "add", "add_assign", "sub", "sub_assign"}

UnaryOps == {"inv", "extend_bit"}

Ops == BinaryOps \cup UnaryOps

InitFor(ops) ==
    /\ op \in ops
    /\ self \in Byte
    /\ rhs \in (IF op \in BinaryOps THEN Byte ELSE {0})
    /\ lhs = self
    /\ pc = "call"
    /\ a = 0 /\ b = 0 /\ p = 0 /\ i = 0
    /\ inv_p = 0 /\ x = 0 /\ next_x = 0 /\ exhausted = FALSE
    /\ res = 0
    /\ steps = 0 /\ mults = 0 /\ hits = 0

Init == InitFor(Ops)

\* mul, entry: let mut a = self.0; let mut b = rhs.0; let mut p = 0;
MulEnter ==
    /\ pc = "call"
    /\ op \in {"mul", "mul_assign"}
    /\ a' = self /\ b' = rhs /\ p' = 0 /\ i' = 0
    /\ pc' = "mul_loop"
    /\ UNCHANGED <<op, self, rhs, lhs, inv_p, x, next_x, exhausted, res,
                   steps, mults, hits>>

\* variant: the loop is left as soon as no bit of b remains
MulLoopEarlyExit ==
    /\ pc \in {"mul_loop", "inv_mul"}
    /\ i < 8
    /\ IF b = 0
       THEN i' = 8 /\ UNCHANGED <<a, b, p, steps>>
       ELSE /\ LET s == [p |-> BitXor(p, BitAnd(extend_bit(BitAnd(b, 1)), a)),
                        b |-> ShrU8(b, 1),
                        a |-> BitXor(ShlU8(a, 1),
                                     BitAnd(extend_bit(BitAnd(ShrU8(a, 7), 1)), 27))]
               IN  a' = s.a /\ b' = s.b /\ p' = s.p
            /\ i' = i + 1
            /\ steps' = steps + 1
    /\ UNCHANGED <<op, self, rhs, lhs, pc, inv_p, x, next_x, exhausted, res,
                   mults, hits>>

\* mul, one iteration of `for _ in 0..8`, called directly or from the inverse
MulLoop ==
    /\ pc \in {"mul_loop", "inv_mul"}
    /\ i < MulIters
    /\ LET s == MulIter([a |-> a, b |-> b, p |-> p])
       IN  a' = s.a /\ b' = s.b /\ p' = s.p
    /\ i' = i + 1
    /\ steps' = steps + 1
    /\ UNCHANGED <<op, self, rhs, lhs, pc, inv_p, x, next_x, exhausted, res,
                   mults, hits>>

\* mul, return GF(p); mul_assign stores it: *self = self.mul(rhs)
MulReturn ==
    /\ pc = "mul_loop"
    /\ ~(i < MulIters)
    /\ res' = p
    /\ lhs' = IF op = "mul_assign" THEN p ELSE lhs
    /\ mults' = mults + 1
    /\ pc' = "done"
    /\ UNCHANGED <<op, self, rhs, a, b, p, i, inv_p, x, next_x, exhausted,
                   steps, hits>>

\* multiplicative_inverse, entry: let mut p = 0; and the iterator 0u8..=255u8
InvEnter ==
    /\ pc = "call"
    /\ op = "inv"
    /\ inv_p' = 0
    /\ next_x' = 0 /\ exhausted' = FALSE
    /\ pc' = "inv_loop"
    /\ UNCHANGED <<op, self, rhs, lhs, a, b, p, i, x, res, steps, mults, hits>>

\* for x in 0u8..=255u8: the next candidate, and the call self * GF(x)
InvNext ==
    /\ pc = "inv_loop"
    /\ LET n == RangeNext(next_x, exhausted)
       IN  /\ n.some
           /\ x' = n.value
           /\ next_x' = n.start % U8Mod
           /\ exhausted' = n.exhausted
           /\ IF n.overflow
              THEN pc' = "panic" /\ UNCHANGED <<a, b, p, i>>
              ELSE /\ pc' = "inv_mul"
                   /\ a' = self /\ b' = n.value /\ p' = 0 /\ i' = 0
    /\ UNCHANGED <<op, self, rhs, lhs, inv_p, res, steps, mults, hits>>

\* the product is back: y, or, and p ^= !extend_bit(or) & x
InvAccumulate ==
    /\ pc = "inv_mul"
    /\ ~(i < MulIters)
    /\ LET term == InvTerm(p, x)
       IN  /\ inv_p' = BitXor(inv_p, term)
           /\ hits' = IF term # 0 THEN hits + 1 ELSE hits
    /\ mults' = mults + 1
    /\ pc' = "inv_loop"
    /\ UNCHANGED <<op, self, rhs, lhs, a, b, p, i, x, next_x, exhausted, res, steps>>

\* the iterator is exhausted: GF(p)
InvReturn ==
    /\ pc = "inv_loop"
    /\ ~RangeNext(next_x, exhausted).some
    /\ res' = inv_p
    /\ pc' = "done"
    /\ UNCHANGED <<op, self, rhs, lhs, a, b, p, i, inv_p, x, next_x, exhausted,
                   steps, mults, hits>>

\* GF(self) + GF(rhs)
Add ==
    /\ pc = "call" /\ op = "add"
    /\ res' = add(self, rhs)
    /\ pc' = "done"
    /\ UNCHANGED <<op, self, rhs, lhs, a, b, p, i, inv_p, x, next_x, exhausted,
                   steps, mults, hits>>

\* lhs += GF(rhs): *self = self.add(rhs)
AddAssign ==
    /\ pc = "call" /\ op = "add_assign"
    /\ res' = add(lhs, rhs)
    /\ lhs' = add(lhs, rhs)
    /\ pc' = "done"
    /\ UNCHANGED <<op, self, rhs, a, b, p, i, inv_p, x, next_x, exhausted,
                   steps, mults, hits>>

\* GF(self) - GF(rhs)
Sub ==
    /\ pc = "call" /\ op = "sub"
    /\ res' = sub(self, rhs)
    /\ pc' = "done"
    /\ UNCHANGED <<op, self, rhs, lhs, a, b, p, i, inv_p, x, next_x, exhausted,
                   steps, mults, hits>>

\* lhs -= GF(rhs): self.add_assign(rhs)
SubAssign ==
    /\ pc = "call" /\ op = "sub_assign"
    /\ res' = add(lhs, rhs)
    /\ lhs' = add(lhs, rhs)
    /\ pc' = "done"
    /\ UNCHANGED <<op, self, rhs, a, b, p, i, inv_p, x, next_x, exhausted,
                   steps, mults, hits>>

\* extend_bit(self), called on its own as the unit test does
ExtendBit ==
    /\ pc = "call" /\ op = "extend_bit"
    /\ res' = extend_bit(self)
    /\ pc' = "done"
    /\ UNCHANGED <<op, self, rhs, lhs, a, b, p, i, inv_p, x, next_x, exhausted,
                   steps, mults, hits>>

Next ==
    \/ MulEnter \/ MulLoop \/ MulReturn
    \/ InvEnter \/ InvNext \/ InvAccumulate \/ InvReturn
    \/ Add \/ AddAssign \/ Sub \/ SubAssign
    \/ ExtendBit

Spec == Init /\ [][Next]_vars

---------------------------------------------------------------------------
(* the operations taken one family at a time *)

InitMul == InitFor({"mul", "mul_assign"})

NextMul == MulEnter \/ MulLoop \/ MulReturn

SpecMul == InitMul /\ [][NextMul]_vars

InitInv == InitFor({"inv"})

NextInv == InvEnter \/ InvNext \/ MulLoop \/ InvAccumulate \/ InvReturn

SpecInv == InitInv /\ [][NextInv]_vars

\* a call that can take a step takes it: the code runs to its return
FairSpecInv == SpecInv /\ WF_vars(NextInv)

InitAdd == InitFor({"add", "add_assign", "sub", "sub_assign"})

NextAdd == Add \/ AddAssign \/ Sub \/ SubAssign

SpecAdd == InitAdd /\ [][NextAdd]_vars

InitExt == InitFor({"extend_bit"})

NextExt == ExtendBit

SpecExt == InitExt /\ [][NextExt]_vars

---------------------------------------------------------------------------
(* mul tabulated over all of u8, for the laws with a third operand *)

MulT == [m \in Byte |-> [n \in Byte |-> mul(m, n)]]

Done(o) == pc = "done" /\ op = o

---------------------------------------------------------------------------
(* reference definitions the claims compare the code against *)

\* x^8+x^4+x^3+x+1 as a bit pattern, 0x11B (0b1_0001_1011)
RefPoly == 283

\* bit k of v
Bit(v, k) == (v \div (2 ^ k)) % 2

RECURSIVE XorBits(_, _, _)
\* XOR, bit position by bit position, from position k up to 7
XorBits(m, n, k) ==
    IF k > 7 THEN 0
    ELSE (IF Bit(m, k) # Bit(n, k) THEN 2 ^ k ELSE 0) + XorBits(m, n, k + 1)

XorRef(m, n) == XorBits(m, n, 0)

RECURSIVE ClMul(_, _)
\* carry-less product of two polynomials over GF(2), not reduced
ClMul(m, n) ==
    IF n = 0 THEN 0
    ELSE XorRec(IF n % 2 = 1 THEN m ELSE 0, 2 * ClMul(m, n \div 2))

RECURSIVE Degree(_)
\* degree of a nonzero polynomial
Degree(v) == IF v <= 1 THEN 0 ELSE 1 + Degree(v \div 2)

RECURSIVE PolyMod(_, _)
\* remainder of v modulo f by long division, f of degree 8
PolyMod(v, f) ==
    IF v < 256 THEN v
    ELSE PolyMod(XorRec(v, f * (2 ^ (Degree(v) - 8))), f)

\* the product in GF(2^8): multiply first, reduce afterwards
RefMul(m, n) == PolyMod(ClMul(m, n), RefPoly)

MulOps == {"mul", "mul_assign"}

---------------------------------------------------------------------------
(* C1: when mul (or mul_assign) has returned, its result is the carry-less  *)
(* product of the operands reduced modulo 0x11B, for every pair of bytes;   *)
(* in particular 0x53*0xCA = 0x01, 0x57*0x83 = 0xC1 and 0x57*0x13 = 0xFE.   *)
C1_MulIsReferenceProduct ==
    (pc = "done" /\ op \in MulOps) =>
        /\ res = RefMul(self, rhs)
        /\ (self = 83 /\ rhs = 202) => res = 1
        /\ (self = 87 /\ rhs = 131) => res = 193
        /\ (self = 87 /\ rhs = 19) => res = 254

C1_Witness == Done("mul") /\ self = 87 /\ rhs = 131 /\ res = 193 /\ i = 8

(* C2: when multiplicative_inverse has returned for a nonzero operand, the  *)
(* operand times the returned value is 1; the inverses of 0x01, 0x02, 0x03, *)
(* 0xFF and 110 are 0x01, 0x8D, 0xF6, 0x1C and 33.                          *)
C2_InverseRoundTrip ==
    (Done("inv") /\ self # 0) =>
        /\ mul(self, res) = 1
        /\ self = 1 => res = 1
        /\ self = 2 => res = 141
        /\ self = 3 => res = 246
        /\ self = 255 => res = 28
        /\ self = 110 => res = 33

C2_Witness == Done("inv") /\ self = 110 /\ res = 33 /\ mults = 256

(* C3: multiplicative_inverse of 0 returns 0; for every operand the call    *)
(* never panics, its loop variable, iterator and values stay inside u8,     *)
(* and it runs to its return.                                               *)
C3_Safe ==
    op = "inv" =>
        /\ pc # "panic"
        /\ x \in Byte /\ next_x \in Byte
        /\ inv_p \in Byte /\ res \in Byte
        /\ a \in Byte /\ b \in Byte /\ p \in Byte
        /\ (pc = "done" /\ self = 0) => res = 0

C3_ZeroInverseTotal == [](C3_Safe) /\ <>(pc = "done")

C3_Witness ==
    Done("inv") /\ self = 0 /\ res = 0 /\ x = 255 /\ exhausted /\ hits = 0

Ctl == [pc |-> pc, i |-> i, x |-> x, next_x |-> next_x, exhausted |-> exhausted]

\* The position after one step, as a function of the operation and the
\* position alone: no operand, local or result is read.
NextCtl(o, c) ==
    CASE c.pc = "call" /\ o \in MulOps ->
            [c EXCEPT !.pc = "mul_loop", !.i = 0]
      [] c.pc = "call" /\ o = "inv" ->
            [c EXCEPT !.pc = "inv_loop", !.next_x = 0, !.exhausted = FALSE]
      [] c.pc = "call" /\ o \notin MulOps \cup {"inv"} ->
            [c EXCEPT !.pc = "done"]
      [] c.pc \in {"mul_loop", "inv_mul"} /\ c.i < 8 ->
            [c EXCEPT !.i = c.i + 1]
      [] c.pc = "mul_loop" /\ c.i >= 8 ->
            [c EXCEPT !.pc = "done"]
      [] c.pc = "inv_mul" /\ c.i >= 8 ->
            [c EXCEPT !.pc = "inv_loop"]
      [] c.pc = "inv_loop" /\ ~c.exhausted ->
            [pc |-> "inv_mul", i |-> 0, x |-> c.next_x,
             next_x |-> IF c.next_x < 255 THEN c.next_x + 1 ELSE c.next_x,
             exhausted |-> (c.next_x = 255)]
      [] c.pc = "inv_loop" /\ c.exhausted ->
            [c EXCEPT !.pc = "done"]
      [] OTHER -> c

FixedCounts ==
    /\ (pc = "done" /\ op \in MulOps) => (steps = 8 /\ mults = 1)
    /\ (pc = "mul_loop") => (steps = i /\ mults = 0)
    /\ Done("inv") => (steps = 2048 /\ mults = 256)
    /\ (pc = "inv_mul") => (steps = 8 * mults + i /\ mults = x)
    /\ (pc = "inv_loop") => (steps = 8 * mults)

(* C4: the sequence of positions a call goes through depends on the         *)
(* operation only: every step moves the position (pc, loop counters,        *)
(* iterator) as a function of the position alone, so two calls with         *)
(* different operands run the same steps side by side; mul returns after    *)
(* exactly 8 iterations and multiplicative_inverse after exactly 256        *)
(* products and 2048 iterations of mul's loop.                              *)
C4_FixedCost == [](FixedCounts) /\ [][Ctl' = NextCtl(op, Ctl)]_vars

C4_Witness ==
    Done("inv") /\ self = 0 /\ steps = 2048 /\ mults = 256

(* C5: a * (b + c) = (a * b) + (a * c) for the product a * b the call has   *)
(* returned and every byte c.                                               *)
C5_Distributive ==
    Done("mul") =>
        \A c \in Byte : MulT[self][add(rhs, c)] = add(res, MulT[self][c])

C5_Witness == Done("mul") /\ self = 175 /\ rhs = 47 /\ res = 83

(* C6: a * b = b * a: the result the call has returned equals the product   *)
(* with the operands exchanged.                                             *)
C6_Commutative ==
    (pc = "done" /\ op \in MulOps) => res = mul(rhs, self)

C6_Witness == Done("mul") /\ self = 2 /\ rhs = 128 /\ res = 27

(* C7: (a * b) * c = a * (b * c) for the product a * b the call has         *)
(* returned and every byte c.                                               *)
C7_Associative ==
    Done("mul") =>
        \A c \in Byte : MulT[res][c] = MulT[self][MulT[rhs][c]]

C7_Witness == Done("mul") /\ self = 83 /\ rhs = 202 /\ res = 1

AssignOps == {"add_assign", "sub_assign"}

(* C8: addition and subtraction both return the bitwise XOR of their        *)
(* operands, so a - b = a + b, a + a = 0 and a + 0 = a; the assigning       *)
(* forms leave that value in the left variable, the others leave the left   *)
(* variable alone.                                                          *)
C8_AddSubXor ==
    (pc = "done" /\ op \in {"add", "sub", "add_assign", "sub_assign"}) =>
        /\ res = XorRef(self, rhs)
        /\ res = add(self, rhs)
        /\ lhs = IF op \in AssignOps THEN XorRef(self, rhs) ELSE self
        /\ rhs = self => res = 0
        /\ rhs = 0 => res = self

C8_Witness == Done("sub_assign") /\ self = 147 /\ rhs = 91 /\ lhs = 200

(* C9: extend_bit(v) is 0xFF when v is odd and 0x00 when v is even, for     *)
(* every byte v; the left shift by 7 as i8 gives -128 or 0 on the way.      *)
C9_ExtendBit ==
    Done("extend_bit") =>
        /\ res = IF self % 2 = 1 THEN 255 ELSE 0
        /\ ShlI8(AsI8(self), 7) = IF self % 2 = 1 THEN -128 ELSE 0

C9_Witness == Done("extend_bit") /\ self = 197 /\ res = 255

\* the candidates whose product with v is 1
Inverses(v) == {y \in Byte : MulT[v][y] = 1}

(* C10: throughout multiplicative_inverse at most one iteration has XORed   *)
(* a nonzero term into p; before it p is 0, after it p is the one           *)
(* candidate whose product with the operand is 1; a nonzero operand has     *)
(* exactly one such candidate and the call returns after exactly one such   *)
(* iteration; for the operand 0 there is none and p stays 0.                *)
C10_InverseAccumulation ==
    op = "inv" =>
        /\ hits \in {0, 1}
        /\ hits = 0 => inv_p = 0
        /\ hits = 1 => (inv_p # 0 /\ MulT[self][inv_p] = 1 /\ inv_p <= x)
        /\ self = 0 => (hits = 0 /\ inv_p = 0)
        /\ pc = "done" =>
              /\ Cardinality(Inverses(self)) = IF self = 0 THEN 0 ELSE 1
              /\ hits = Cardinality(Inverses(self))
              /\ res = inv_p

C10_Witness ==
    pc = "inv_loop" /\ op = "inv" /\ self = 2 /\ x = 141 /\ inv_p = 141 /\ hits = 1

=============================================================================
